---- MODULE Spec2Model ----
(***************************************************************************)
(* Model of the classification package: the Classification lattice        *)
(* (classified.py), the Maybe monad (maybe.py) and the Classified monad    *)
(* with its batch combinator map_many (classified.py).                     *)
(*                                                                         *)
(* Python objects are records.  A Classification is                        *)
(*   [level |-> set of tokens, compartment |-> set of tokens].             *)
(* A payload is [tag, n]: an integer, the None object or the Missing       *)
(* sentinel.  A Maybe, a Classified and a raw argument share one record    *)
(* shape [tag, value, error, classification]; the fields a kind does not   *)
(* have hold a filler that no operation of the code reads.                 *)
(***************************************************************************)
EXTENDS Integers, Sequences, FiniteSets, TLC

VARIABLES lhs, rhs, cmp, clss, joined
VARIABLES start, recv, trail, last
VARIABLES mm_args, mm_kwargs, mm_out
VARIABLES ja, jb, jc, laws
VARIABLES orig, text, parsed
VARIABLES co_value, co_marking, co_out
VARIABLES heap, excs, built, marks, marks_built, flog

vars == <<lhs, rhs, cmp, clss, joined, start, recv, trail, last,
          mm_args, mm_kwargs, mm_out, ja, jb, jc, laws, orig, text, parsed,
          co_value, co_marking, co_out, heap, excs, built, marks, marks_built,
          flog>>

\* the variables of each specification
order_vars == <<lhs, rhs, cmp>>

union_vars == <<clss, joined>>

chain_vars == <<start, recv, trail, last>>

many_vars == <<mm_args, mm_kwargs, mm_out>>

laws_vars == <<ja, jb, jc, laws>>

parse_vars == <<orig, text, parsed>>

coerce_vars == <<co_value, co_marking, co_out>>

frame_vars == <<heap, excs, built, marks, marks_built, flog>>

later_vars == <<laws_vars, parse_vars, coerce_vars, frame_vars>>

-----------------------------------------------------------------------------
(* Bounds and input domains *)

\* longest sequence of classifications handed to union
MaxLen == 3

\* longest chain of map, apply and if_error calls on one starting value
MaxSteps == 3

\* most arguments, positional and named together, of one map_many call
MaxArgs == 3

\* longest text handed to the parser, in symbols
MaxText == 6

\* most operations carried out on one collection of objects
MaxOps == 3

\* level tokens and compartment tokens the inputs are built from
Levels == {"A", "B"}

Compartments == {"X", "Y"}

Markings == [level : SUBSET Levels, compartment : SUBSET Compartments]

\* the lattice bottom, Classification([], [])
Bottom == [level |-> {}, compartment |-> {}]

-----------------------------------------------------------------------------
(* frozenset comparisons of Python, element by element *)

\* a <= b on frozensets: every element of a is in b
set_le(a, b) == \A x \in a : x \in b

\* a >= b on frozensets: every element of b is in a
set_ge(a, b) == \A x \in b : x \in a

\* a < b on frozensets: a <= b and the sets differ
set_lt(a, b) == set_le(a, b) /\ (\E x \in b : x \notin a)

\* a == b on frozensets
set_eq(a, b) == set_le(a, b) /\ set_le(b, a)

-----------------------------------------------------------------------------
(* classified.py: the lattice *)

\* _is_subset(a, b): True for an empty a, else Python's a < b
is_subset(a, b) == IF Cardinality(a) = 0 THEN TRUE ELSE set_lt(a, b)

\* Classification.__init__: both components become frozensets
Classification(level, compartment) ==
    [level |-> level, compartment |-> compartment]

Classification_eq(self, other) ==
    set_eq(self.level, other.level)
        /\ set_eq(self.compartment, other.compartment)

Classification_lt(self, other) ==
    LET first_clause == is_subset(self.level, other.level)
                            /\ set_le(self.compartment, other.compartment)
        second_clause == set_le(self.level, other.level)
                            /\ is_subset(self.compartment, other.compartment)
    IN  first_clause \/ second_clause

Classification_le(self, other) ==
    set_le(self.level, other.level)
        /\ set_le(self.compartment, other.compartment)

Classification_gt(self, other) ==
    LET first_clause == is_subset(other.level, self.level)
                            /\ set_le(other.compartment, self.compartment)
        second_clause == set_le(other.level, self.level)
                            /\ is_subset(other.compartment, self.compartment)
    IN  first_clause \/ second_clause

Classification_ge_only_level(self, other) ==
    set_ge(self.level, other.level)

Classification_ge(self, other) ==
    set_ge(self.level, other.level)
        /\ set_ge(self.compartment, other.compartment)

\* union.flatten: every element of every member of seq, in turn
RECURSIVE flatten(_)
flatten(seq) ==
    IF seq = <<>> THEN {} ELSE Head(seq) \cup flatten(Tail(seq))

\* Classification.coerce for an iterable level (None is the empty iterable)
Classification_coerce_iter(level, compartment) ==
    Classification(level, compartment)

union_drop_last(classifications) ==
    LET n == Len(classifications)
        kept == IF n > 1 THEN SubSeq(classifications, 1, n - 1)
                ELSE classifications
        level == flatten([i \in DOMAIN kept |-> kept[i].level])
        compartment == flatten([i \in DOMAIN kept |-> kept[i].compartment])
    IN  Classification_coerce_iter(level, compartment)

union_first_compartment(classifications) ==
    LET level ==
            flatten([i \in DOMAIN classifications |-> classifications[i].level])
        compartment ==
            IF classifications = <<>> THEN {}
            ELSE classifications[1].compartment
    IN  Classification_coerce_iter(level, compartment)

union(classifications) ==
    LET level ==
            flatten([i \in DOMAIN classifications |-> classifications[i].level])
        compartment ==
            flatten([i \in DOMAIN classifications
                        |-> classifications[i].compartment])
    IN  Classification_coerce_iter(level, compartment)

-----------------------------------------------------------------------------
(* Payloads, errors and objects *)

\* a Python int payload
PyInt(n) == [tag |-> "int", n |-> n]

\* the None object as a payload
PyNone == [tag |-> "None", n |-> 0]

\* math.inf, the payload the test's recovery handler returns
Inf == [tag |-> "inf", n |-> 0]

\* the Missing sentinel that classified.py imports from maybe.py
MISSING == [tag |-> "Missing", n |-> 0]

isinstance_Missing(v) == v.tag = "Missing"

\* the error field of a valid object: Python's None
NoError == "None"

\* message strings a caller may pass where an error is expected
Messages == {"cant do that"}

\* ExpectationError() and ExpectationError(msg)
ExpectationError(msg) ==
    IF msg = NoError THEN "ExpectationError()"
    ELSE "ExpectationError('cant do that')"

\* the instances of Exception that occur
Exceptions == {"ZeroDivisionError()", "ValueError()", "TypeError()",
               ExpectationError(NoError), ExpectationError("cant do that")}

isinstance_str(x) == x \in Messages

isinstance_Exception(x) == x \in Exceptions

\* filler of the classification field of objects that carry no marking
NoMarking == [level |-> {"-"}, compartment |-> {"-"}]

\* the forms of the optional classification argument: None or a Classification
NoneArg == [kind |-> "None", obj |-> NoMarking]

ClsArg(c) == [kind |-> "Classification", obj |-> c]

\* Classification.coerce(level) for a Classification and for None
Classification_coerce(level) ==
    IF level.kind = "Classification" THEN level.obj
    ELSE Classification_coerce_iter({}, {})

\* a plain Python value handed to Classified.coerce or map_many
Raw(v) ==
    [tag |-> "raw", value |-> v, error |-> NoError,
     classification |-> NoMarking]

-----------------------------------------------------------------------------
(* Text: a Python str is a sequence of symbols; each symbol is one         *)
(* character, except that the word UNCLASSIFIED is a single symbol          *)

\* the symbols texts are written with
Symbols == {"(", ")", "/", " ", "P", "Q", "UNCLASSIFIED"}

\* the module constant UNCLASSIFIED
UNCLASSIFIED == <<"UNCLASSIFIED">>

\* the code point of a symbol (of its first character)
ord(c) ==
    CASE c = " " -> 32
      [] c = "(" -> 40
      [] c = ")" -> 41
      [] c = "/" -> 47
      [] c = "P" -> 80
      [] c = "Q" -> 81
      [] OTHER -> 85

\* str.find(ch): the lowest index (from 0) where ch occurs, or -1
str_find(s, ch) ==
    IF \E i \in DOMAIN s : s[i] = ch
    THEN (CHOOSE i \in DOMAIN s :
            s[i] = ch /\ \A j \in 1..(i - 1) : s[j] # ch) - 1
    ELSE -1

\* str.rfind(ch): the highest index (from 0) where ch occurs, or -1
str_rfind(s, ch) ==
    IF \E i \in DOMAIN s : s[i] = ch
    THEN (CHOOSE i \in DOMAIN s :
            s[i] = ch /\ \A j \in (i + 1)..Len(s) : s[j] # ch) - 1
    ELSE -1

\* the slice s[a:b] for indices a, b >= 0
str_slice(s, a, b) ==
    IF a >= b \/ a >= Len(s) THEN <<>>
    ELSE SubSeq(s, a + 1, IF b > Len(s) THEN Len(s) ELSE b)

\* str.strip(): without leading and trailing whitespace
str_strip(s) ==
    IF \A i \in DOMAIN s : s[i] = " " THEN <<>>
    ELSE LET first == CHOOSE i \in DOMAIN s :
                        s[i] # " " /\ \A j \in 1..(i - 1) : s[j] = " "
             final == CHOOSE i \in DOMAIN s :
                        s[i] # " " /\ \A j \in (i + 1)..Len(s) : s[j] = " "
         IN  SubSeq(s, first, final)

\* sep occurs in s at position i (from 1)
occurs_at(s, sep, i) ==
    /\ i + Len(sep) - 1 <= Len(s)
    /\ SubSeq(s, i, i + Len(sep) - 1) = sep

\* str.split(sep): the pieces between the occurrences of sep, found from the
\* left without overlap
RECURSIVE str_split(_, _)
str_split(s, sep) ==
    IF \E i \in DOMAIN s : occurs_at(s, sep, i)
    THEN LET i == CHOOSE k \in DOMAIN s :
                    occurs_at(s, sep, k)
                        /\ \A j \in 1..(k - 1) : ~occurs_at(s, sep, j)
         IN  <<SubSeq(s, 1, i - 1)>>
                \o str_split(SubSeq(s, i + Len(sep), Len(s)), sep)
    ELSE <<s>>

\* sep.join(parts)
RECURSIVE str_join(_, _)
str_join(sep, parts) ==
    IF parts = <<>> THEN <<>>
    ELSE IF Len(parts) = 1 THEN parts[1]
    ELSE parts[1] \o sep \o str_join(sep, Tail(parts))

\* a < b on str: lexicographic by code point
RECURSIVE str_lt(_, _)
str_lt(a, b) ==
    IF b = <<>> THEN FALSE
    ELSE IF a = <<>> THEN TRUE
    ELSE IF ord(Head(a)) # ord(Head(b)) THEN ord(Head(a)) < ord(Head(b))
    ELSE str_lt(Tail(a), Tail(b))

\* sorted(labels) for a set of str
RECURSIVE sorted(_)
sorted(labels) ==
    IF labels = {} THEN <<>>
    ELSE LET least == CHOOSE x \in labels :
                        \A y \in labels : x = y \/ str_lt(x, y)
         IN  <<least>> \o sorted(labels \ {least})

\* an optional str: None or a str
NoneStr == [none |-> TRUE, s |-> <<>>]

Str(s) == [none |-> FALSE, s |-> s]

-----------------------------------------------------------------------------
(* classified.py: the textual notation *)

\* the ValueError that _remove_parens raises
InvalidMarking == "ValueError('invalid classification marking')"

remove_parens_lenient(class_str) ==
    LET start_at == str_find(class_str, "(")
        end_at == str_rfind(class_str, ")")
    IN  IF start_at # -1 /\ end_at # -1
        THEN [raised |-> FALSE, ret |-> str_slice(class_str, start_at + 1, end_at)]
        ELSE [raised |-> FALSE, ret |-> class_str]

\* _parse_classification_string._remove_parens
remove_parens(class_str) ==
    LET start_at == str_find(class_str, "(")
        end_at == str_rfind(class_str, ")")
    IN  IF start_at # -1 /\ end_at # -1
        THEN [raised |-> FALSE, ret |-> str_slice(class_str, start_at + 1, end_at)]
        ELSE IF start_at # -1 \/ end_at # -1
        THEN [raised |-> TRUE, ret |-> <<>>]
        ELSE [raised |-> FALSE, ret |-> class_str]

\* _parse_classification_string._split: the first `length` pieces of the
\* stripped string, padded with None
split(string, char, length) ==
    LET pieces == str_split(str_strip(string), char)
    IN  [i \in 1..length |->
            IF i <= Len(pieces) THEN Str(pieces[i]) ELSE NoneStr]

\* the labels of one part: lab.strip() for lab in part.split("/")
labels_of(part) ==
    LET labs == str_split(part, <<"/">>)
    IN  {str_strip(labs[i]) : i \in DOMAIN labs}

parse_classification_string(class_str) ==
    LET inner == remove_parens(class_str)
        parts == split(inner.ret, <<"/", "/">>, 2)
        level_str == parts[1]
        comp_str == parts[2]
        level == IF level_str.none \/ Len(level_str.s) = 0 THEN {}
                 ELSE {lab \in labels_of(level_str.s) : lab # UNCLASSIFIED}
        comp == IF comp_str.none \/ Len(comp_str.s) = 0 THEN {}
                ELSE labels_of(comp_str.s)
    IN  IF inner.raised
        THEN [raised |-> TRUE, exc |-> InvalidMarking, result |-> Bottom]
        ELSE [raised |-> FALSE, exc |-> NoError,
              result |-> Classification_coerce_iter(level, comp)]

\* Classification.coerce(level) for a str
Classification_coerce_str(level) == parse_classification_string(level)

Classification_repr_flat(self) ==
    LET level_part == IF Cardinality(self.level) > 0
                      THEN str_join(<<"/", "/">>, sorted(self.level))
                      ELSE UNCLASSIFIED
        comp_part == str_join(<<"/", "/">>, sorted(self.compartment))
    IN  IF Len(comp_part) > 0
        THEN <<"(">> \o level_part \o <<"/", "/">> \o comp_part \o <<")">>
        ELSE <<"(">> \o level_part \o <<")">>

\* Classification.__repr__
Classification_repr(self) ==
    LET level_part == IF Cardinality(self.level) > 0
                      THEN str_join(<<"/">>, sorted(self.level))
                      ELSE UNCLASSIFIED
        comp_part == str_join(<<"/">>, sorted(self.compartment))
    IN  IF Len(comp_part) > 0
        THEN <<"(">> \o level_part \o <<"/", "/">> \o comp_part \o <<")">>
        ELSE <<"(">> \o level_part \o <<")">>

-----------------------------------------------------------------------------
(* maybe.py *)

\* Maybe.__init__
Maybe(value, error) ==
    [tag |-> "Maybe", value |-> value, error |-> error,
     classification |-> NoMarking]

Maybe_just(value) == Maybe(value, NoError)

Maybe_nothing(error) ==
    LET err == IF isinstance_str(error) THEN ExpectationError(error)
               ELSE IF error = NoError THEN ExpectationError(NoError)
               ELSE error
    IN  Maybe(PyNone, err)

Maybe_is_valid(self) == self.error = NoError

\* what a call hands back: a returned payload or object, or a raised error,
\* and the calls of user functions it made.  `same` tells which object the
\* returned reference is: "new" for one the call built (and for payloads),
\* "self" for the receiver, "returned" for the object the supplied function
\* returned.  `events` lists, in the order they happen, the expect() calls
\* on arguments and the calls of the supplied function that a map makes.
\* `effects` lists what the call changed in objects that existed before it,
\* and `efrom` tells which exception object the error of the outcome (the
\* raised one, or the one stored in the returned object) is.

\* the receiver of a call, its k-th argument (positional, then named), and
\* the error handed to a handler
Self == [kind |-> "self", at |-> 0]

Arg(k) == [kind |-> "arg", at |-> k]

Given == [kind |-> "given", at |-> 0]

\* an exception object built by the call and never raised (Maybe.nothing(e)
\* of a supplied function), and one that a raise statement threw
Fresh == [kind |-> "fresh", at |-> 0]

Thrown == [kind |-> "thrown", at |-> 0]

\* `raise e` on the exception that target stores: Python sets the
\* __traceback__ of the exception object
Reraised(target) ==
    [target |-> target, attr |-> "__traceback__", val |-> PyNone]

\* an assignment `target.attr = val`
Assigned(target, attr, val) == [target |-> target, attr |-> attr, val |-> val]

Returns(v, calls) ==
    [raised |-> FALSE, exc |-> NoError, ret |-> v, calls |-> calls,
     same |-> "new", events |-> <<>>, effects |-> <<>>, efrom |-> Fresh]

Raises(e, calls) ==
    [raised |-> TRUE, exc |-> e, ret |-> PyNone, calls |-> calls,
     same |-> "new", events |-> <<>>, effects |-> <<>>, efrom |-> Thrown]

\* filler of the ret field when a call that returns an object raises
NoObject ==
    [tag |-> "none", value |-> PyNone, error |-> NoError,
     classification |-> NoMarking]

RaisesObj(e, calls) ==
    [raised |-> TRUE, exc |-> e, ret |-> NoObject, calls |-> calls,
     same |-> "new", events |-> <<>>, effects |-> <<>>, efrom |-> Thrown]

\* `raise self._error`: the stored exception object itself is raised
RaisesStored(self) ==
    [Raises(self.error, <<>>) EXCEPT !.effects = <<Reraised(Self)>>,
                                     !.efrom = Self]

\* the effects and the error of an outcome of a.expect(), seen from the
\* caller that holds a as `target`
Retargeted(out, target) ==
    [out EXCEPT !.effects = [i \in DOMAIN @ |->
                                IF @[i].target = Self
                                THEN [@[i] EXCEPT !.target = target]
                                ELSE @[i]],
                !.efrom = IF @ = Self THEN target ELSE @]

\* Python's answer to reading an attribute that a Maybe does not have
NoAttribute(name) ==
    IF name = "value"
    THEN "AttributeError(\"'Maybe' object has no attribute 'value'\")"
    ELSE "AttributeError(\"'Maybe' object has no attribute 'error'\")"

\* self.value and self.error of a Maybe, as classified.py reads them:
\* Maybe.__init__ sets _value and _error and the class defines no property,
\* so the read raises
Maybe_value(self) == RaisesObj(NoAttribute("value"), <<>>)

Maybe_error(self) == RaisesObj(NoAttribute("error"), <<>>)

\* the event of a.expect() on an argument and the event of func(...)
Unwrapped(a) == [ev |-> "expect", obj |-> a]

Called == [ev |-> "call", obj |-> NoObject]

\* `return self`
ReturnsSelf(self) == [Returns(self, <<>>) EXCEPT !.same = "self"]

\* `return func(...)`: the object the supplied function returned
ReturnsResult(v, calls) == [Returns(v, calls) EXCEPT !.same = "returned"]

\* Maybe.expect that prefers the stored error to the override
Maybe_expect_stored_first(self, msg) ==
    IF ~Maybe_is_valid(self) THEN
        IF self.error # NoError THEN Raises(self.error, <<>>)
        ELSE IF isinstance_Exception(msg) THEN Raises(msg, <<>>)
        ELSE IF isinstance_str(msg) THEN Raises(ExpectationError(msg), <<>>)
        ELSE Raises(ExpectationError(NoError), <<>>)
    ELSE Returns(self.value, <<>>)

Maybe_expect(self, msg) ==
    IF ~Maybe_is_valid(self) THEN
        IF isinstance_Exception(msg) THEN Raises(msg, <<>>)
        ELSE IF isinstance_str(msg) THEN Raises(ExpectationError(msg), <<>>)
        ELSE IF self.error # NoError THEN RaisesStored(self)
        ELSE Raises(ExpectationError(NoError), <<>>)
    ELSE Returns(self.value, <<>>)

-----------------------------------------------------------------------------
(* classified.py: Classified, construction and unwrapping *)

\* Classified.__init__
Classified(value, classification, error) ==
    [tag |-> "Classified", value |-> value, error |-> error,
     classification |-> Classification_coerce(classification)]

Classified_just(value, classification) ==
    LET c == Classification_coerce(classification)
    IN  Classified(value, ClsArg(c), NoError)

Classified_nothing(error, classification) ==
    LET err == IF isinstance_str(error) THEN ExpectationError(error)
               ELSE IF error = NoError THEN ExpectationError(NoError)
               ELSE error
        c == Classification_coerce(classification)
    IN  Classified(MISSING, ClsArg(c), err)

Classified_is_valid(self) == self.error = NoError

\* Classified.coerce(value, classification): the value itself, a new
\* Classified, or the error of reading value.value / value.error on a Maybe
Classified_coerce(value, classification) ==
    LET c == Classification_coerce(classification)
    IN  IF value.tag = "Classified" THEN ReturnsSelf(value)
        ELSE IF value.tag = "Maybe" THEN
            IF Maybe_is_valid(value) THEN
                LET v == Maybe_value(value)
                IN  IF v.raised THEN RaisesObj(v.exc, <<>>)
                    ELSE IF isinstance_Missing(v.ret)
                    THEN Returns(Classified_nothing(NoError, ClsArg(c)), <<>>)
                    ELSE Returns(Classified_just(v.ret, ClsArg(c)), <<>>)
            ELSE LET e == Maybe_error(value)
                 IN  IF e.raised THEN RaisesObj(e.exc, <<>>)
                     ELSE Returns(Classified_nothing(e.ret, ClsArg(c)), <<>>)
        ELSE Returns(Classified_just(value.value, ClsArg(c)), <<>>)

Classified_expect(self, msg) ==
    IF ~Classified_is_valid(self) THEN
        IF isinstance_Exception(msg) THEN Raises(msg, <<>>)
        ELSE IF isinstance_str(msg) THEN Raises(ExpectationError(msg), <<>>)
        ELSE IF self.error # NoError THEN RaisesStored(self)
        ELSE Raises(ExpectationError(NoError), <<>>)
    ELSE IF isinstance_Missing(self.value)
         THEN Raises(ExpectationError(NoError), <<>>)
    ELSE Returns(self.value, <<>>)

-----------------------------------------------------------------------------
(* The functions callers supply *)

\* one call of a supplied function, as recorded in the calls of an outcome
Call(name, args, kwargs, error) ==
    [fn |-> name, args |-> args, kwargs |-> kwargs, error |-> error]

\* lambda x: x + 1, lambda x: 2 * x and lambda x: x / 0 of the tests
MapFuncs == {"inc", "double", "div0"}

\* functions that return a Maybe: lambda x: Maybe.just(x + 1),
\* lambda x: Maybe.nothing(ZeroDivisionError()),
\* lambda x: Maybe.nothing("cant do that"), and one that raises ValueError()
ApplyFuncs == {"safe_inc", "divide_by_zero", "reject", "broken"}

\* error handlers: handle_zero_division of test_maybe.py,
\* lambda err: Maybe.nothing(), and one that raises ValueError()
Handlers == {"handle_zero_division", "give_up", "broken_handler"}

\* functions for map_many: func(m, x, b=0) = m * x + b of the test,
\* weigh(m, x=0, b=0) = 100 * m + 10 * x + b, and fail(*a, **kw) that raises
ManyFuncs == {"func", "weigh", "fail"}

\* the parameter names of func and weigh, in order
Params == <<"m", "x", "b">>

\* Python's argument binding: no more positional arguments than parameters,
\* every named argument names a parameter not filled by position, and each
\* of the first `required` parameters is filled
binds(required, args, kwargs) ==
    /\ Len(args) <= Len(Params)
    /\ \A j \in DOMAIN kwargs :
            \E i \in DOMAIN Params :
                Params[i] = kwargs[j].name /\ i > Len(args)
    /\ \A i \in 1..required :
            \/ i <= Len(args)
            \/ \E j \in DOMAIN kwargs : kwargs[j].name = Params[i]

\* the value bound to parameter i, 0 being the default
bound(i, args, kwargs) ==
    IF i <= Len(args) THEN args[i]
    ELSE IF \E j \in DOMAIN kwargs : kwargs[j].name = Params[i]
    THEN kwargs[CHOOSE j \in DOMAIN kwargs : kwargs[j].name = Params[i]].value
    ELSE PyInt(0)

\* x + 1 and 2 * x on a payload: inf stays inf, None is a TypeError
arith(name, x) ==
    IF x.tag = "int"
    THEN Returns(PyInt(IF name = "inc" THEN x.n + 1 ELSE 2 * x.n), <<>>)
    ELSE IF x.tag = "inf" THEN Returns(Inf, <<>>)
    ELSE Raises("TypeError()", <<>>)

\* what the supplied function `name` does on its arguments: a handler gets
\* the error, the others positional and named payloads
call_user(name, args, kwargs, error) ==
    CASE name \in {"inc", "double"} -> arith(name, args[1])
      [] name = "div0" ->
            IF args[1].tag \in {"int", "inf"}
            THEN Raises("ZeroDivisionError()", <<>>)
            ELSE Raises("TypeError()", <<>>)
      [] name = "safe_inc" ->
            LET r == arith("inc", args[1])
            IN  IF r.raised THEN r ELSE Returns(Maybe_just(r.ret), <<>>)
      [] name = "divide_by_zero" ->
            Returns(Maybe_nothing("ZeroDivisionError()"), <<>>)
      [] name = "reject" -> Returns(Maybe_nothing("cant do that"), <<>>)
      [] name = "broken" -> Raises("ValueError()", <<>>)
      [] name = "handle_zero_division" ->
            IF error = "ZeroDivisionError()"
            THEN Returns(Maybe_just(Inf), <<>>)
            ELSE [Returns(Maybe_nothing(error), <<>>) EXCEPT !.efrom = Given]
      [] name = "give_up" -> Returns(Maybe_nothing(NoError), <<>>)
      [] name = "broken_handler" -> Raises("ValueError()", <<>>)
      [] name = "func" ->
            IF binds(2, args, kwargs)
            THEN Returns(PyInt(bound(1, args, kwargs).n
                                    * bound(2, args, kwargs).n
                                + bound(3, args, kwargs).n), <<>>)
            ELSE Raises("TypeError()", <<>>)
      [] name = "weigh" ->
            IF binds(1, args, kwargs)
            THEN Returns(PyInt(100 * bound(1, args, kwargs).n
                                + 10 * bound(2, args, kwargs).n
                                + bound(3, args, kwargs).n), <<>>)
            ELSE Raises("TypeError()", <<>>)
      [] name = "fail" -> Raises("ValueError()", <<>>)

\* a callable handed to Classified.map: a supplied function, or the closure
\* `method` that map_many builds around one
User(name) == [kind |-> "user", name |-> name]

Method(name) == [kind |-> "method", name |-> name]

-----------------------------------------------------------------------------
(* maybe.py: the combinators *)

\* func(...) called with one payload, or with the error for a handler
call_one(func, args, error) ==
    [call_user(func, args, <<>>, error)
        EXCEPT !.calls = <<Call(func, args, <<>>, error)>>]

\* Maybe.map that hands on a fresh ExpectationError instead of the stored
\* error
Maybe_map_fresh_error(self, func) ==
    IF ~Maybe_is_valid(self) THEN Returns(Maybe_nothing(NoError), <<>>)
    ELSE LET r == call_one(func, <<self.value>>, NoError)
         IN  IF r.raised THEN Returns(Maybe_nothing(r.exc), r.calls)
             ELSE Returns(Maybe_just(r.ret), r.calls)

Maybe_map(self, func) ==
    IF ~Maybe_is_valid(self)
    THEN [Returns(Maybe_nothing(self.error), <<>>) EXCEPT !.efrom = Self]
    ELSE LET r == call_one(func, <<self.value>>, NoError)
         IN  IF r.raised
             THEN [Returns(Maybe_nothing(r.exc), r.calls)
                        EXCEPT !.efrom = r.efrom]
             ELSE Returns(Maybe_just(r.ret), r.calls)

Maybe_apply(self, func) ==
    IF ~Maybe_is_valid(self)
    THEN [Returns(Maybe_nothing(self.error), <<>>) EXCEPT !.efrom = Self]
    ELSE LET r == call_one(func, <<self.value>>, NoError)
         IN  IF r.raised THEN RaisesObj(r.exc, r.calls)
             ELSE ReturnsResult(r.ret, r.calls)

\* Maybe.if_error that calls the handler whatever the state of the receiver
Maybe_if_error_eager(self, func) ==
    LET r == call_one(func, <<>>, self.error)
    IN  IF r.raised THEN RaisesObj(r.exc, r.calls)
        ELSE ReturnsResult(r.ret, r.calls)

Maybe_if_error(self, func) ==
    IF Maybe_is_valid(self) THEN ReturnsSelf(self)
    ELSE LET r == call_one(func, <<>>, self.error)
         IN  IF r.raised THEN RaisesObj(r.exc, r.calls)
             ELSE [ReturnsResult(r.ret, r.calls)
                        EXCEPT !.efrom = IF r.efrom = Given THEN Self
                                         ELSE r.efrom]

-----------------------------------------------------------------------------
(* classified.py: the combinators *)

\* tuple(a.expect() for a in args.args): stops at the first that raises
RECURSIVE expect_args(_)
expect_args(seq) ==
    IF seq = <<>> THEN Returns(<<>>, <<>>)
    ELSE LET h == Classified_expect(Head(seq), NoError)
             ev == <<Unwrapped(Head(seq))>>
         IN  IF h.raised THEN [h EXCEPT !.events = ev]
             ELSE LET t == expect_args(Tail(seq))
                  IN  IF t.raised THEN [t EXCEPT !.events = ev \o @]
                      ELSE [Returns(<<h.ret>> \o t.ret, <<>>)
                                EXCEPT !.events = ev \o t.events]

\* {k: a.expect() for k, a in args.kwargs.items()}, in the dict's order
RECURSIVE expect_kwargs(_)
expect_kwargs(seq) ==
    IF seq = <<>> THEN Returns(<<>>, <<>>)
    ELSE LET h == Classified_expect(Head(seq).value, NoError)
             ev == <<Unwrapped(Head(seq).value)>>
         IN  IF h.raised THEN [h EXCEPT !.events = ev]
             ELSE LET t == expect_kwargs(Tail(seq))
                  IN  IF t.raised THEN [t EXCEPT !.events = ev \o @]
                      ELSE [Returns(<<[name |-> Head(seq).name,
                                       value |-> h.ret]>> \o t.ret, <<>>)
                                EXCEPT !.events = ev \o t.events]


\* map_many.method that passes the positional arguments only
method_without_kwargs(func, args) ==
    LET uargs == expect_args(args.args)
    IN  IF uargs.raised THEN uargs
        ELSE LET ukwargs == expect_kwargs(args.kwargs)
             IN  IF ukwargs.raised THEN ukwargs
                 ELSE [call_user(func, uargs.ret, <<>>, NoError)
                        EXCEPT !.calls =
                            <<Call(func, uargs.ret, <<>>, NoError)>>,
                               !.events = uargs.events \o ukwargs.events
                                            \o <<Called>>]

\* map_many.method that unwraps the named arguments first
method_kwargs_first(func, args) ==
    LET ukwargs == expect_kwargs(args.kwargs)
    IN  IF ukwargs.raised THEN ukwargs
        ELSE LET uargs == expect_args(args.args)
             IN  IF uargs.raised
                 THEN [uargs EXCEPT !.events = ukwargs.events \o @]
                 ELSE [call_user(func, uargs.ret, ukwargs.ret, NoError)
                        EXCEPT !.calls =
                            <<Call(func, uargs.ret, ukwargs.ret, NoError)>>,
                               !.events = ukwargs.events \o uargs.events
                                            \o <<Called>>]

\* map_many.method(args) for the supplied function func; the argument whose
\* expect() raised is the last one unwrapped
method(func, args) ==
    LET uargs == expect_args(args.args)
    IN  IF uargs.raised THEN Retargeted(uargs, Arg(Len(uargs.events)))
        ELSE LET ukwargs == expect_kwargs(args.kwargs)
             IN  IF ukwargs.raised
                 THEN [Retargeted(ukwargs,
                            Arg(Len(args.args) + Len(ukwargs.events)))
                            EXCEPT !.events = uargs.events \o @]
                 ELSE [call_user(func, uargs.ret, ukwargs.ret, NoError)
                        EXCEPT !.calls =
                            <<Call(func, uargs.ret, ukwargs.ret, NoError)>>,
                               !.events = uargs.events \o ukwargs.events
                                            \o <<Called>>]

\* func(self.value) inside Classified.map
call_func(func, value) ==
    IF func.kind = "method" THEN method(func.name, value)
    ELSE [call_user(func.name, <<value>>, <<>>, NoError)
            EXCEPT !.calls = <<Call(func.name, <<value>>, <<>>, NoError)>>,
                   !.events = <<Called>>]


\* Classified.map that forgets the marking on the error it captures
Classified_map_unmarked_error(self, func) ==
    IF ~Classified_is_valid(self)
    THEN Returns(Classified_nothing(self.error, ClsArg(self.classification)),
                 <<>>)
    ELSE LET r == call_func(func, self.value)
         IN  IF r.raised
             THEN [Returns(Classified_nothing(r.exc, NoneArg), r.calls)
                        EXCEPT !.events = r.events]
             ELSE [Returns(Classified_just(r.ret,
                                ClsArg(self.classification)), r.calls)
                        EXCEPT !.events = r.events]

\* Classified.map that stores the outcome in its receiver and returns it
Classified_map_in_place(self, func) ==
    IF ~Classified_is_valid(self) THEN ReturnsSelf(self)
    ELSE LET r == call_func(func, self.value)
         IN  IF r.raised
             THEN [ReturnsSelf([self EXCEPT !.value = MISSING,
                                            !.error = r.exc])
                        EXCEPT !.calls = r.calls, !.events = r.events,
                               !.effects = r.effects
                                    \o <<Assigned(Self, "_value", MISSING),
                                         Assigned(Self, "_error", r.exc)>>,
                               !.efrom = r.efrom]
             ELSE [ReturnsSelf([self EXCEPT !.value = r.ret])
                        EXCEPT !.calls = r.calls, !.events = r.events,
                               !.effects = r.effects
                                    \o <<Assigned(Self, "_value", r.ret)>>]

Classified_map(self, func) ==
    IF ~Classified_is_valid(self)
    THEN [Returns(Classified_nothing(self.error, ClsArg(self.classification)),
                  <<>>) EXCEPT !.efrom = Self]
    ELSE LET r == call_func(func, self.value)
         IN  IF r.raised
             THEN [Returns(Classified_nothing(r.exc,
                                ClsArg(self.classification)), r.calls)
                        EXCEPT !.events = r.events, !.effects = r.effects,
                               !.efrom = r.efrom]
             ELSE [Returns(Classified_just(r.ret,
                                ClsArg(self.classification)), r.calls)
                        EXCEPT !.events = r.events]

\* tuple(Classified.coerce(a) for a in args): stops at the first that raises
RECURSIVE coerce_args(_)
coerce_args(seq) ==
    IF seq = <<>> THEN Returns(<<>>, <<>>)
    ELSE LET h == Classified_coerce(Head(seq), NoneArg)
         IN  IF h.raised THEN RaisesObj(h.exc, <<>>)
             ELSE LET t == coerce_args(Tail(seq))
                  IN  IF t.raised THEN t
                      ELSE Returns(<<h.ret>> \o t.ret, <<>>)

\* {k: Classified.coerce(v) for k, v in kwargs.items()}
RECURSIVE coerce_kwargs(_)
coerce_kwargs(seq) ==
    IF seq = <<>> THEN Returns(<<>>, <<>>)
    ELSE LET h == Classified_coerce(Head(seq).value, NoneArg)
         IN  IF h.raised THEN RaisesObj(h.exc, <<>>)
             ELSE LET t == coerce_kwargs(Tail(seq))
                  IN  IF t.raised THEN t
                      ELSE Returns(<<[name |-> Head(seq).name,
                                      value |-> h.ret]>> \o t.ret, <<>>)

\* ClassifiedArguments(args=..., kwargs=...) of coerced arguments, the
\* positional ones coerced first; or the error that coercing one raised
ClassifiedArguments(args, kwargs) ==
    LET cargs == coerce_args(args)
    IN  IF cargs.raised THEN cargs
        ELSE LET ckwargs == coerce_kwargs(kwargs)
             IN  IF ckwargs.raised THEN ckwargs
                 ELSE Returns([args |-> cargs.ret, kwargs |-> ckwargs.ret],
                              <<>>)

\* map_many that joins the markings of the positional arguments only
Classified_map_many_positional_only(func, args, kwargs) ==
    LET coerced == ClassifiedArguments(args, kwargs)
        arguments == coerced.ret
        classification ==
            union([i \in DOMAIN arguments.args |->
                            arguments.args[i].classification])
    IN  IF coerced.raised THEN coerced
        ELSE Classified_map(Classified_just(arguments, ClsArg(classification)),
                            Method(func))

\* the markings of the members of seq that are valid
RECURSIVE valid_markings(_)
valid_markings(seq) ==
    IF seq = <<>> THEN <<>>
    ELSE (IF Classified_is_valid(Head(seq))
          THEN <<Head(seq).classification>> ELSE <<>>)
            \o valid_markings(Tail(seq))

\* map_many that joins the markings of the valid arguments only
Classified_map_many_valid_only(func, args, kwargs) ==
    LET coerced == ClassifiedArguments(args, kwargs)
        arguments == coerced.ret
        classification ==
            union(<<union(valid_markings(arguments.args)),
                    union(valid_markings([i \in DOMAIN arguments.kwargs |->
                            arguments.kwargs[i].value]))>>)
    IN  IF coerced.raised THEN coerced
        ELSE Classified_map(Classified_just(arguments, ClsArg(classification)),
                            Method(func))

\* Classified.map_many(func, *args, **kwargs); an error raised while the
\* arguments are coerced is outside map's try and reaches the caller
Classified_map_many(func, args, kwargs) ==
    LET coerced == ClassifiedArguments(args, kwargs)
        arguments == coerced.ret
        classification ==
            union(<<union([i \in DOMAIN arguments.args |->
                            arguments.args[i].classification]),
                    union([i \in DOMAIN arguments.kwargs |->
                            arguments.kwargs[i].value.classification])>>)
    IN  IF coerced.raised THEN coerced
        ELSE Classified_map(Classified_just(arguments, ClsArg(classification)),
                            Method(func))

\* Classified.apply.wrap(m), self being the receiver of apply
wrap(self, m) ==
    IF Maybe_is_valid(m)
    THEN Returns(Classified_just(Maybe_expect(m, NoError).ret,
                                 ClsArg(self.classification)), <<>>)
    ELSE LET e == Maybe_error(m)
         IN  IF e.raised THEN RaisesObj(e.exc, <<>>)
             ELSE Returns(Classified_nothing(e.ret,
                                ClsArg(self.classification)), <<>>)

Classified_apply(self, func) ==
    IF ~Classified_is_valid(self)
    THEN [Returns(Classified_nothing(self.error, ClsArg(self.classification)),
                  <<>>) EXCEPT !.efrom = Self]
    ELSE LET x == Classified_expect(self, NoError)
         IN  IF x.raised THEN RaisesObj(x.exc, <<>>)
             ELSE LET r == call_user(func, <<x.ret>>, <<>>, NoError)
                      calls == <<Call(func, <<x.ret>>, <<>>, NoError)>>
                  IN  IF r.raised THEN RaisesObj(r.exc, calls)
                      ELSE [wrap(self, r.ret) EXCEPT !.calls = calls]

Classified_if_error(self, func) ==
    IF Classified_is_valid(self) THEN ReturnsSelf(self)
    ELSE LET e == IF self.error = NoError THEN ExpectationError(NoError)
                  ELSE self.error
             r == call_user(func, <<>>, <<>>, e)
             calls == <<Call(func, <<>>, <<>>, e)>>
         IN  IF r.raised THEN RaisesObj(r.exc, calls)
             ELSE LET out == Classified_coerce(r.ret,
                                    ClsArg(self.classification))
                  IN  [out EXCEPT !.calls = calls,
                                  !.same = IF @ = "self" THEN "returned"
                                           ELSE @]

-----------------------------------------------------------------------------
(* The state a specification leaves alone *)

\* before any combinator was called
NoCall ==
    [op |-> "none", func |-> "none", before |-> NoObject, raised |-> FALSE,
     exc |-> NoError, ret |-> NoObject, calls |-> <<>>, same |-> "new"]

\* before map_many was called
NotCalled ==
    [done |-> FALSE, func |-> "none", raised |-> FALSE, exc |-> NoError,
     ret |-> NoObject, calls |-> <<>>, events |-> <<>>]

\* before the comparison and before the union
NotCompared == [done |-> FALSE, lt |-> FALSE, le |-> FALSE, gt |-> FALSE,
                ge |-> FALSE, eq |-> FALSE]

NotJoined == [done |-> FALSE, result |-> Bottom]

IdleOrder == lhs = Bottom /\ rhs = Bottom /\ cmp = NotCompared

IdleUnion == clss = <<>> /\ joined = NotJoined

IdleChain ==
    start = NoObject /\ recv = NoObject /\ trail = <<>> /\ last = NoCall

IdleMany == mm_args = <<>> /\ mm_kwargs = <<>> /\ mm_out = NotCalled

\* before the unions of three markings were taken
NoLaws == [done |-> FALSE, ab |-> Bottom, ba |-> Bottom, ab_c |-> Bottom,
           a_bc |-> Bottom, aa |-> Bottom]

IdleLaws == ja = Bottom /\ jb = Bottom /\ jc = Bottom /\ laws = NoLaws

\* before a text was parsed
NotParsed == [done |-> FALSE, raised |-> FALSE, exc |-> NoError,
              result |-> Bottom]

IdleParse == orig = Bottom /\ text = <<>> /\ parsed = NotParsed

\* before Classified.coerce was called
NotCoerced == [done |-> FALSE, raised |-> FALSE, exc |-> NoError,
               ret |-> NoObject, same |-> "new"]

IdleCoerce ==
    co_value = NoObject /\ co_marking = NoneArg /\ co_out = NotCoerced

\* no object was built
IdleFrame ==
    /\ heap = <<>>
    /\ excs = <<>>
    /\ built = <<>>
    /\ marks = <<>>
    /\ marks_built = <<>>
    /\ flog = <<>>

IdleLater == IdleLaws /\ IdleParse /\ IdleCoerce /\ IdleFrame

-----------------------------------------------------------------------------
(* Specification SpecOrder: two markings are drawn and compared *)

InitOrder ==
    /\ lhs \in Markings
    /\ rhs \in Markings
    /\ cmp = NotCompared
    /\ clss = <<>>
    /\ joined = NotJoined
    /\ IdleChain
    /\ IdleMany
    /\ IdleLater

\* evaluate lhs < rhs, lhs <= rhs, lhs > rhs, lhs >= rhs and lhs == rhs
Compare ==
    /\ ~cmp.done
    /\ cmp' = [done |-> TRUE,
               lt |-> Classification_lt(lhs, rhs),
               le |-> Classification_le(lhs, rhs),
               gt |-> Classification_gt(lhs, rhs),
               ge |-> Classification_ge(lhs, rhs),
               eq |-> Classification_eq(lhs, rhs)]
    /\ UNCHANGED <<lhs, rhs, union_vars, chain_vars, many_vars, later_vars>>

\* the caller moves on to another pair of markings
NextPair ==
    /\ cmp.done
    /\ lhs' \in Markings
    /\ rhs' \in Markings
    /\ cmp' = NotCompared
    /\ UNCHANGED <<union_vars, chain_vars, many_vars, later_vars>>

NextOrder == Compare \/ NextPair

SpecOrder == InitOrder /\ [][NextOrder]_vars

-----------------------------------------------------------------------------
(* Specification SpecUnion: a sequence of markings is built and joined *)

InitUnion ==
    /\ lhs = Bottom
    /\ rhs = Bottom
    /\ cmp = NotCompared
    /\ clss = <<>>
    /\ joined = NotJoined
    /\ IdleChain
    /\ IdleMany
    /\ IdleLater

\* the caller adds one more classification to the sequence
AppendClassification ==
    /\ ~joined.done
    /\ Len(clss) < MaxLen
    /\ \E c \in Markings : clss' = Append(clss, c)
    /\ UNCHANGED <<order_vars, joined, chain_vars, many_vars, later_vars>>

\* union(clss)
Union ==
    /\ ~joined.done
    /\ joined' = [done |-> TRUE, result |-> union(clss)]
    /\ UNCHANGED <<order_vars, clss, chain_vars, many_vars, later_vars>>

NextUnion == AppendClassification \/ Union

SpecUnion == InitUnion /\ [][NextUnion]_vars

-----------------------------------------------------------------------------
(* Specification Spec: a chain of map, apply and if_error calls on a        *)
(* Classified value                                                         *)

\* errors a starting value may carry
StartErrors == {"ZeroDivisionError()", "ValueError()"}

\* Classified.just(1, m) and Classified.nothing(e, m) for every marking m,
\* Maybe.just(1) and Maybe.nothing(e)
StartValues ==
    {Classified_just(PyInt(1), ClsArg(m)) : m \in Markings}
        \cup {Classified_nothing(e, ClsArg(m)) :
                e \in StartErrors, m \in Markings}
        \cup {Maybe_just(PyInt(1))}
        \cup {Maybe_nothing(e) : e \in StartErrors}

\* what a caller passes to expect: nothing, a message or an Exception
Overrides == {NoError, "cant do that", "TypeError()"}

Init ==
    /\ IdleOrder
    /\ IdleUnion
    /\ IdleMany
    /\ start \in StartValues
    /\ recv = start
    /\ trail = <<>>
    /\ last = NoCall
    /\ IdleLater

\* the call recv.<op>(func) gave `out`; the chain goes on with what it
\* returned, or with recv when it raised to the caller
Step(op, func, out) ==
    /\ last' = [op |-> op, func |-> func, before |-> recv,
                raised |-> out.raised, exc |-> out.exc, ret |-> out.ret,
                calls |-> out.calls, same |-> out.same]
    /\ recv' = IF out.raised \/ op = "expect" THEN recv ELSE out.ret
    /\ trail' = Append(trail, [op |-> op, func |-> func])
    /\ UNCHANGED <<start, order_vars, union_vars, many_vars, later_vars>>

\* recv = recv.map(f)
Map ==
    /\ Len(trail) < MaxSteps
    /\ \E f \in MapFuncs :
            Step("map", f, IF recv.tag = "Maybe" THEN Maybe_map(recv, f)
                           ELSE Classified_map(recv, User(f)))

\* recv = recv.apply(f)
Apply ==
    /\ Len(trail) < MaxSteps
    /\ \E f \in ApplyFuncs :
            Step("apply", f, IF recv.tag = "Maybe" THEN Maybe_apply(recv, f)
                             ELSE Classified_apply(recv, f))

\* recv = recv.if_error(h)
IfError ==
    /\ Len(trail) < MaxSteps
    /\ \E h \in Handlers :
            Step("if_error", h,
                 IF recv.tag = "Maybe" THEN Maybe_if_error(recv, h)
                 ELSE Classified_if_error(recv, h))

\* recv.expect(msg); the chain goes on with recv
Expect ==
    /\ Len(trail) < MaxSteps
    /\ \E msg \in Overrides :
            LET x == IF recv.tag = "Maybe" THEN Maybe_expect(recv, msg)
                     ELSE Classified_expect(recv, msg)
            IN  Step("expect", msg,
                     IF x.raised THEN RaisesObj(x.exc, <<>>)
                     ELSE Returns(Raw(x.ret), <<>>))

Next == Map \/ Apply \/ IfError \/ Expect

Spec == Init /\ [][Next]_vars

-----------------------------------------------------------------------------
(* Specification SpecMapMany: the arguments of one map_many call are        *)
(* collected and the call is made                                           *)

\* payloads and errors of the arguments
ArgValues == {PyInt(1), PyInt(2)}

ArgErrors == {"ZeroDivisionError()", "ValueError()"}

\* markings of the Classified arguments: (A), (B) and (UNCLASSIFIED//X)
ArgMarkings ==
    {Classification({"A"}, {}), Classification({"B"}, {}),
     Classification({}, {"X"})}

\* raw values, valid Classified values and Classified values in error state
ArgDomain ==
    {Raw(v) : v \in ArgValues}
        \cup {Classified_just(v, ClsArg(m)) : v \in ArgValues, m \in ArgMarkings}
        \cup {Classified_nothing(e, ClsArg(m)) :
                e \in ArgErrors, m \in ArgMarkings}

\* the names a named argument may have
KwNames == {"x", "b"}

InitMapMany ==
    /\ IdleOrder
    /\ IdleUnion
    /\ IdleChain
    /\ mm_args = <<>>
    /\ mm_kwargs = <<>>
    /\ mm_out = NotCalled
    /\ IdleLater

\* one more positional argument
AddArg ==
    /\ ~mm_out.done
    /\ Len(mm_args) + Len(mm_kwargs) < MaxArgs
    /\ \E a \in ArgDomain : mm_args' = Append(mm_args, a)
    /\ UNCHANGED <<mm_kwargs, mm_out, order_vars, union_vars, chain_vars, later_vars>>

\* one more named argument, under a name not yet used
AddKwarg ==
    /\ ~mm_out.done
    /\ Len(mm_args) + Len(mm_kwargs) < MaxArgs
    /\ \E k \in KwNames, a \in ArgDomain :
        /\ \A j \in DOMAIN mm_kwargs : mm_kwargs[j].name # k
        /\ mm_kwargs' = Append(mm_kwargs, [name |-> k, value |-> a])
    /\ UNCHANGED <<mm_args, mm_out, order_vars, union_vars, chain_vars, later_vars>>

\* Classified.map_many(func, *mm_args, **mm_kwargs)
CallMapMany ==
    /\ ~mm_out.done
    /\ \E func \in ManyFuncs :
        LET out == Classified_map_many(func, mm_args, mm_kwargs)
        IN  mm_out' = [done |-> TRUE, func |-> func, raised |-> out.raised,
                       exc |-> out.exc, ret |-> out.ret, calls |-> out.calls,
                       events |-> out.events]
    /\ UNCHANGED <<mm_args, mm_kwargs, order_vars, union_vars, chain_vars, later_vars>>

NextMapMany == AddArg \/ AddKwarg \/ CallMapMany

SpecMapMany == InitMapMany /\ [][NextMapMany]_vars

-----------------------------------------------------------------------------
(* Specification SpecJoinLaws: three markings are drawn and joined in the   *)
(* orders the join laws speak of                                            *)

InitJoinLaws ==
    /\ IdleOrder
    /\ IdleUnion
    /\ IdleChain
    /\ IdleMany
    /\ IdleParse
    /\ IdleCoerce
    /\ ja \in Markings
    /\ jb \in Markings
    /\ jc \in Markings
    /\ laws = NoLaws
    /\ IdleFrame

\* union([ja, jb]), union([jb, ja]), union([union([ja, jb]), jc]),
\* union([ja, union([jb, jc])]) and union([ja, ja])
JoinLaws ==
    /\ ~laws.done
    /\ laws' = [done |-> TRUE,
                ab |-> union(<<ja, jb>>),
                ba |-> union(<<jb, ja>>),
                ab_c |-> union(<<union(<<ja, jb>>), jc>>),
                a_bc |-> union(<<ja, union(<<jb, jc>>)>>),
                aa |-> union(<<ja, ja>>)]
    /\ UNCHANGED <<ja, jb, jc, order_vars, union_vars, chain_vars, many_vars,
                   parse_vars, coerce_vars, frame_vars>>

NextJoinLaws == JoinLaws

SpecJoinLaws == InitJoinLaws /\ [][NextJoinLaws]_vars

-----------------------------------------------------------------------------
(* Specification SpecParse: a text is written symbol by symbol and handed   *)
(* to Classification.coerce                                                 *)

InitParse ==
    /\ IdleOrder
    /\ IdleUnion
    /\ IdleChain
    /\ IdleMany
    /\ IdleLaws
    /\ IdleCoerce
    /\ orig = Bottom
    /\ text = <<>>
    /\ parsed = NotParsed
    /\ IdleFrame

\* the caller writes one more symbol
TypeSymbol ==
    /\ ~parsed.done
    /\ Len(text) < MaxText
    /\ \E c \in Symbols : text' = Append(text, c)
    /\ UNCHANGED <<orig, parsed, order_vars, union_vars, chain_vars, many_vars,
                   laws_vars, coerce_vars, frame_vars>>

\* Classification.coerce(text)
Parse ==
    /\ ~parsed.done
    /\ LET out == Classification_coerce_str(text)
       IN  parsed' = [done |-> TRUE, raised |-> out.raised, exc |-> out.exc,
                      result |-> out.result]
    /\ UNCHANGED <<orig, text, order_vars, union_vars, chain_vars, many_vars,
                   laws_vars, coerce_vars, frame_vars>>

NextParse == TypeSymbol \/ Parse

SpecParse == InitParse /\ [][NextParse]_vars

-----------------------------------------------------------------------------
(* Specification SpecRoundTrip: a Classification is rendered by repr and    *)
(* the text is handed to Classification.coerce                              *)

\* plain tokens: no "/", no parenthesis, no surrounding whitespace, not the
\* word UNCLASSIFIED
PlainTokens == {<<"P">>, <<"Q">>, <<"P", "Q">>, <<"Q", " ", "P">>}

PlainMarkings == [level : SUBSET PlainTokens, compartment : SUBSET PlainTokens]

InitRoundTrip ==
    /\ IdleOrder
    /\ IdleUnion
    /\ IdleChain
    /\ IdleMany
    /\ IdleLaws
    /\ IdleCoerce
    /\ orig \in PlainMarkings
    /\ text = <<>>
    /\ parsed = NotParsed
    /\ IdleFrame

\* text = repr(orig)
Repr ==
    /\ text = <<>>
    /\ text' = Classification_repr(orig)
    /\ UNCHANGED <<orig, parsed, order_vars, union_vars, chain_vars, many_vars,
                   laws_vars, coerce_vars, frame_vars>>

\* Classification.coerce(repr(orig))
ParseRepr == text # <<>> /\ Parse

NextRoundTrip == Repr \/ ParseRepr

SpecRoundTrip == InitRoundTrip /\ [][NextRoundTrip]_vars

-----------------------------------------------------------------------------
(* Specification SpecCoerce: a value and an optional marking are drawn and  *)
(* handed to Classified.coerce                                              *)

\* payloads and errors of the values
CoerceValues == {PyInt(1), PyNone}

CoerceErrors == {"ZeroDivisionError()", ExpectationError("cant do that")}

\* raw values, Maybe values and Classified values, valid and in error state
CoerceDomain ==
    {Raw(v) : v \in CoerceValues}
        \cup {Maybe_just(v) : v \in CoerceValues}
        \cup {Maybe_nothing(e) : e \in CoerceErrors}
        \cup {Classified_just(v, ClsArg(m)) :
                v \in CoerceValues, m \in Markings}
        \cup {Classified_nothing(e, ClsArg(m)) :
                e \in CoerceErrors, m \in Markings}

InitCoerce ==
    /\ IdleOrder
    /\ IdleUnion
    /\ IdleChain
    /\ IdleMany
    /\ IdleLaws
    /\ IdleParse
    /\ co_value \in CoerceDomain
    /\ co_marking \in {NoneArg} \cup {ClsArg(m) : m \in Markings}
    /\ co_out = NotCoerced
    /\ IdleFrame

\* Classified.coerce(co_value, co_marking)
Coerce ==
    /\ ~co_out.done
    /\ LET out == Classified_coerce(co_value, co_marking)
       IN  co_out' = [done |-> TRUE, raised |-> out.raised, exc |-> out.exc,
                      ret |-> out.ret,
                      same |-> IF out.same = "self" THEN "value" ELSE "new"]
    /\ UNCHANGED <<co_value, co_marking, order_vars, union_vars, chain_vars,
                   many_vars, laws_vars, parse_vars, frame_vars>>

NextCoerce == Coerce

SpecCoerce == InitCoerce /\ [][NextCoerce]_vars

-----------------------------------------------------------------------------
(* Specification SpecFrame: objects are built one after the other by        *)
(* operations on the objects built before.  heap holds every object with    *)
(* the identity of the exception it stores, excs the exception objects,     *)
(* built every object as it was when it was constructed                     *)

FrameStarts ==
    {Maybe_just(PyInt(1)), Maybe_nothing("ZeroDivisionError()"),
     Classified_just(PyInt(1), ClsArg(Classification({"A"}, {}))),
     Classified_nothing("ZeroDivisionError()",
                        ClsArg(Classification({"B"}, {"X"})))}

FrameMarks == {Classification({"A"}, {}), Classification({}, {"Y"})}

\* the functions handed to the operations
FrameMapFuncs == {"inc", "div0"}

FrameApplyFuncs == {"safe_inc", "broken"}

FrameHandlers == {"handle_zero_division", "give_up", "broken_handler"}

FrameOverrides == {NoError, "cant do that"}

\* an exception object: what it shows, and how often it was raised, which
\* stands for its __traceback__ (None before the first raise)
ExceptionObject(repr, tb) == [repr |-> repr, born |-> tb, tb |-> tb]

NoException == [repr |-> NoError, born |-> 0, tb |-> 0]

\* the exception object that the object at k stores, as it is now
StoredException(k) ==
    IF heap[k].eid = 0 THEN NoException ELSE excs[heap[k].eid]

\* the object at k with everything reachable from it
DeepState(k) ==
    [obj |-> heap[k].obj, eid |-> heap[k].eid, exc |-> StoredException(k)]

\* a value just built by the caller, its error never raised
InitFrame ==
    /\ IdleOrder
    /\ IdleUnion
    /\ IdleChain
    /\ IdleMany
    /\ IdleLaws
    /\ IdleParse
    /\ IdleCoerce
    /\ \E s \in FrameStarts :
        /\ heap = <<[obj |-> s, eid |-> IF s.error = NoError THEN 0 ELSE 1]>>
        /\ excs = IF s.error = NoError THEN <<>>
                  ELSE <<ExceptionObject(s.error, 0)>>
        /\ built = <<[obj |-> s,
                      eid |-> IF s.error = NoError THEN 0 ELSE 1,
                      exc |-> IF s.error = NoError THEN NoException
                              ELSE ExceptionObject(s.error, 0)]>>
    /\ marks \in {<<m>> : m \in FrameMarks}
    /\ marks_built = marks
    /\ flog = <<>>

\* the place in the heap of a target of a call with receiver rcv (0 when
\* it has none) and arguments args; 0 for an object the call built itself
Place(target, rcv, args) ==
    IF target.kind = "self" THEN rcv
    ELSE IF target.kind = "arg" /\ target.at \in DOMAIN args
    THEN args[target.at]
    ELSE 0

\* obj after the assignments among effs, in their order
RECURSIVE Written(_, _)
Written(obj, effs) ==
    IF effs = <<>> THEN obj
    ELSE LET e == Head(effs)
             now == IF e.attr = "_value" THEN [obj EXCEPT !.value = e.val]
                    ELSE IF e.attr = "_error" THEN [obj EXCEPT !.error = e.val]
                    ELSE IF e.attr = "_classification"
                    THEN [obj EXCEPT !.classification = e.val]
                    ELSE IF e.attr = "level" THEN [obj EXCEPT !.level = e.val]
                    ELSE IF e.attr = "compartment"
                    THEN [obj EXCEPT !.compartment = e.val]
                    ELSE obj
         IN  Written(now, Tail(effs))

\* the effects among effs that fall on the object at k
EffectsOn(effs, k, rcv, args) ==
    LET Falls(e) == Place(e.target, rcv, args) = k
    IN  SelectSeq(effs, Falls)

\* the exceptions that the effects among effs raised again
Raisings(effs, rcv, args) ==
    LET Falls(e) == /\ e.attr = "__traceback__"
                    /\ Place(e.target, rcv, args) # 0
                    /\ heap[Place(e.target, rcv, args)].eid # 0
        hits == SelectSeq(effs, Falls)
    IN  [i \in DOMAIN hits |-> heap[Place(hits[i].target, rcv, args)].eid]

\* how often e occurs in the sequence ids
Count(ids, e) == Cardinality({i \in DOMAIN ids : ids[i] = e})

\* operation op was called on the receiver at rcv (0 for a static method)
\* with the objects at args and ended with `out`: the effects of the call
\* fall on the objects and exceptions that exist, then the object it built,
\* if any, is added with the exception it stores
FrameStep(op, out, rcv, args) ==
    LET raisings == Raisings(out.effects, rcv, args)
        excs_now == [e \in DOMAIN excs |->
                        [excs[e] EXCEPT !.tb = @ + Count(raisings, e)]]
        heap_now == [k \in DOMAIN heap |->
                        [heap[k] EXCEPT !.obj =
                            Written(@, EffectsOn(out.effects, k, rcv, args))]]
        builds == /\ ~out.raised
                  /\ out.same # "self"
                  /\ out.ret.tag \in {"Maybe", "Classified"}
        stores == builds /\ out.ret.error # NoError
        from == Place(out.efrom, rcv, args)
        fresh == stores /\ from = 0
        eid == IF ~stores THEN 0
               ELSE IF fresh THEN Len(excs) + 1
               ELSE heap[from].eid
        excs_new == IF fresh
                    THEN <<ExceptionObject(out.ret.error,
                                IF out.efrom = Thrown THEN 1 ELSE 0)>>
                    ELSE <<>>
        excs_then == excs_now \o excs_new
    IN  /\ Len(flog) < MaxOps
        /\ excs' = excs_then
        /\ heap' = heap_now \o (IF builds
                                THEN <<[obj |-> out.ret, eid |-> eid]>>
                                ELSE <<>>)
        /\ built' = built \o (IF builds
                              THEN <<[obj |-> out.ret, eid |-> eid,
                                      exc |-> IF eid = 0 THEN NoException
                                              ELSE excs_then[eid]]>>
                              ELSE <<>>)
        /\ flog' = Append(flog, [op |-> op, raised |-> out.raised,
                                 raisings |-> raisings])
        /\ UNCHANGED <<marks, marks_built, order_vars, union_vars, chain_vars,
                       many_vars, laws_vars, parse_vars, coerce_vars>>

\* union(classifications): reads level and compartment of each member and
\* builds a Classification of new sets
union_call(classifications) == Returns(union(classifications), <<>>)

\* the five comparisons of self with other: each reads level and
\* compartment of both and returns a bool
Classification_compare(self, other) ==
    Returns([eq |-> Classification_eq(self, other),
             lt |-> Classification_lt(self, other),
             le |-> Classification_le(self, other),
             gt |-> Classification_gt(self, other),
             ge |-> Classification_ge(self, other)], <<>>)

\* an operation on the markings at args ended with `out` and built the
\* markings `new`
FrameMarkStep(op, out, args, new) ==
    /\ Len(flog) < MaxOps
    /\ marks' = [k \in DOMAIN marks |->
                    Written(marks[k], EffectsOn(out.effects, k, 0, args))]
                    \o new
    /\ marks_built' = marks_built \o new
    /\ flog' = Append(flog, [op |-> op, raised |-> out.raised,
                             raisings |-> <<>>])
    /\ UNCHANGED <<heap, excs, built, order_vars, union_vars, chain_vars,
                   many_vars, laws_vars, parse_vars, coerce_vars>>

\* heap[i].map(f)
FrameMap ==
    \E i \in DOMAIN heap, f \in FrameMapFuncs :
        LET self == heap[i].obj
            out == IF self.tag = "Maybe" THEN Maybe_map(self, f)
                   ELSE Classified_map(self, User(f))
        IN  FrameStep("map", out, i, <<>>)

\* heap[i].apply(f)
FrameApply ==
    \E i \in DOMAIN heap, f \in FrameApplyFuncs :
        LET self == heap[i].obj
            out == IF self.tag = "Maybe" THEN Maybe_apply(self, f)
                   ELSE Classified_apply(self, f)
        IN  FrameStep("apply", out, i, <<>>)

\* heap[i].if_error(h)
FrameIfError ==
    \E i \in DOMAIN heap, h \in FrameHandlers :
        LET self == heap[i].obj
            out == IF self.tag = "Maybe" THEN Maybe_if_error(self, h)
                   ELSE Classified_if_error(self, h)
        IN  FrameStep("if_error", out, i, <<>>)

\* heap[i].expect(msg): a payload or an error, no object
FrameExpect ==
    \E i \in DOMAIN heap, msg \in FrameOverrides :
        LET self == heap[i].obj
            out == IF self.tag = "Maybe" THEN Maybe_expect(self, msg)
                   ELSE Classified_expect(self, msg)
        IN  FrameStep("expect", out, i, <<>>)

\* Classified.coerce(heap[i], marks[j]): a Classified is handed back as it is
FrameCoerce ==
    \E i \in DOMAIN heap, j \in DOMAIN marks :
        LET out == Classified_coerce(heap[i].obj, ClsArg(marks[j]))
        IN  FrameStep("coerce", Retargeted(out, Arg(1)), 0, <<i>>)

\* Classified.map_many(f, heap[i], x=heap[j])
FrameMapMany ==
    \E i \in DOMAIN heap, j \in DOMAIN heap, f \in {"func", "fail"} :
        LET out == Classified_map_many(f, <<heap[i].obj>>,
                        <<[name |-> "x", value |-> heap[j].obj]>>)
        IN  FrameStep("map_many", out, 0, <<i, j>>)

\* union([marks[i], marks[j]])
FrameUnion ==
    \E i \in DOMAIN marks, j \in DOMAIN marks :
        LET out == union_call(<<marks[i], marks[j]>>)
        IN  FrameMarkStep("union", out, <<i, j>>, <<out.ret>>)

\* marks[i] < marks[j], <=, >, >= and ==: bools, no object
FrameCompare ==
    \E i \in DOMAIN marks, j \in DOMAIN marks :
        FrameMarkStep("compare", Classification_compare(marks[i], marks[j]),
                      <<i, j>>, <<>>)

NextFrame ==
    \/ FrameMap
    \/ FrameApply
    \/ FrameIfError
    \/ FrameExpect
    \/ FrameCoerce
    \/ FrameMapMany
    \/ FrameUnion
    \/ FrameCompare

SpecFrame == InitFrame /\ [][NextFrame]_vars

-----------------------------------------------------------------------------
(* Claims about the lattice *)

\* subset and proper subset of the textbook, for stating the claims
Subset(a, b) == a \subseteq b

ProperSubset(a, b) == a \subseteq b /\ a # b

\* a < b as the specification defines it
StrictlyDominated(a, b) ==
    \/ ProperSubset(a.level, b.level) /\ Subset(a.compartment, b.compartment)
    \/ Subset(a.level, b.level) /\ ProperSubset(a.compartment, b.compartment)

\* C7: a marking compared with an equal marking is neither < nor > it, but is
\* <= and >= it (also when its level set or its compartment set is empty);
\* a strictly smaller marking is < the larger one and the larger one is > it.
C7_StrictOrderIsIrreflexive ==
    cmp.done =>
        /\ (lhs = rhs => ~cmp.lt /\ ~cmp.gt /\ cmp.le /\ cmp.ge)
        /\ (StrictlyDominated(lhs, rhs) => cmp.lt)
        /\ (StrictlyDominated(rhs, lhs) => cmp.gt)

\* C8: a < b exactly when a is a proper subset of b in one component and a
\* subset in the other; a > b exactly when b < a.
C8_StrictOrderDefinition ==
    cmp.done =>
        /\ (cmp.lt <=> StrictlyDominated(lhs, rhs))
        /\ (cmp.gt <=> StrictlyDominated(rhs, lhs))

\* C9: a <= b exactly when both components of a are subsets of those of b;
\* a >= b exactly when b <= a; a == b exactly when both components are equal,
\* so a <= b and a >= b together give a == b.
C9_DominanceIsProductOrder ==
    cmp.done =>
        /\ (cmp.le <=> Subset(lhs.level, rhs.level)
                        /\ Subset(lhs.compartment, rhs.compartment))
        /\ (cmp.ge <=> Subset(rhs.level, lhs.level)
                        /\ Subset(rhs.compartment, lhs.compartment))
        /\ (cmp.eq <=> lhs.level = rhs.level
                        /\ lhs.compartment = rhs.compartment)
        /\ (cmp.le /\ cmp.ge => cmp.eq)

\* C9 witness: a compared pair where the right marking has the level of the
\* left one and a compartment more, so >= and == are false and <= is true
C9_Witness ==
    /\ cmp.done
    /\ lhs = [level |-> {"A"}, compartment |-> {}]
    /\ rhs = [level |-> {"A"}, compartment |-> {"X"}]
    /\ cmp.le /\ ~cmp.ge /\ ~cmp.eq

\* C10: the level of union(s) is the set union of the levels in s, its
\* compartment the set union of the compartments in s (bottom for the empty
\* sequence), and every element of s is <= union(s).
C10_UnionIsUpperBound ==
    joined.done =>
        /\ joined.result.level = UNION {clss[i].level : i \in DOMAIN clss}
        /\ joined.result.compartment =
                UNION {clss[i].compartment : i \in DOMAIN clss}
        /\ (clss = <<>> => joined.result = Bottom)
        /\ \A i \in DOMAIN clss : Classification_le(clss[i], joined.result)

\* C10 witness: a union of several markings that is none of them
C10_Witness ==
    /\ joined.done
    /\ Len(clss) >= 2
    /\ \A i \in DOMAIN clss : clss[i] # joined.result
    /\ joined.result.level # {}
    /\ joined.result.compartment # {}

\* C11: union obeys the join laws under Classification.__eq__: it is
\* commutative, union([a, b]) == union([b, a]); associative,
\* union([union([a, b]), c]) == union([a, union([b, c])]); and idempotent,
\* union([a, a]) == a.
C11_UnionJoinLaws ==
    laws.done =>
        /\ Classification_eq(laws.ab, laws.ba)
        /\ Classification_eq(laws.ab_c, laws.a_bc)
        /\ Classification_eq(laws.aa, ja)

\* three pairwise incomparable markings were joined
C11_Witness ==
    /\ laws.done
    /\ ja = Classification({"A"}, {})
    /\ jb = Classification({"B"}, {"X"})
    /\ jc = Classification({}, {"Y"})
    /\ laws.ab_c = Classification({"A", "B"}, {"X", "Y"})

-----------------------------------------------------------------------------
(* Claims about map_many *)

\* the arguments of the call, positional ones first, then the named ones
AllArgs == mm_args \o [i \in DOMAIN mm_kwargs |-> mm_kwargs[i].value]

\* the marking an argument brings: its own, or bottom for a raw value
ArgMarking(a) == IF a.tag = "Classified" THEN a.classification ELSE Bottom

ArgIsValid(a) == a.tag = "raw" \/ a.error = NoError

\* the set union of the markings of all arguments
JoinOfArgs ==
    [level |-> UNION {ArgMarking(AllArgs[i]).level : i \in DOMAIN AllArgs},
     compartment |->
        UNION {ArgMarking(AllArgs[i]).compartment : i \in DOMAIN AllArgs}]

\* what the supplied function does on the payloads of the arguments
FuncOnPayloads ==
    call_user(mm_out.func,
              [i \in DOMAIN mm_args |-> mm_args[i].value],
              [i \in DOMAIN mm_kwargs |->
                    [name |-> mm_kwargs[i].name,
                     value |-> mm_kwargs[i].value.value]],
              NoError)

\* the error of the first argument in error state
FirstArgError ==
    AllArgs[CHOOSE i \in DOMAIN AllArgs :
                /\ ~ArgIsValid(AllArgs[i])
                /\ \A j \in 1..(i - 1) : ArgIsValid(AllArgs[j])].error

\* C1: the marking of what map_many returns is >= the marking of every
\* argument, raw arguments counting as bottom, whether the arguments are
\* valid or in error state and whether the function returns or raises.
C1_MapManyDominatesInputs ==
    mm_out.done =>
        /\ ~mm_out.raised
        /\ \A i \in DOMAIN AllArgs :
                Classification_ge(mm_out.ret.classification,
                                  ArgMarking(AllArgs[i]))

\* C1 witness: a call with a raw argument, a positional argument in error
\* state marked (A) and a valid named argument marked (UNCLASSIFIED//X)
C1_Witness ==
    /\ mm_out.done
    /\ Len(mm_args) = 2 /\ Len(mm_kwargs) = 1
    /\ mm_args[1].tag = "raw"
    /\ ~ArgIsValid(mm_args[2])
    /\ mm_args[2].classification = Classification({"A"}, {})
    /\ ArgIsValid(mm_kwargs[1].value)
    /\ mm_kwargs[1].value.classification = Classification({}, {"X"})
    /\ mm_out.ret.classification = Classification({"A"}, {"X"})

\* C2: when every argument is valid and the function returns v, map_many
\* returns a valid Classified with payload v, the function's value on the
\* unwrapped positional arguments in order and the unwrapped named arguments
\* by name, marked with the union of the markings of all arguments.
C2_MapManySuccess ==
    (/\ mm_out.done
     /\ \A i \in DOMAIN AllArgs : ArgIsValid(AllArgs[i])
     /\ ~FuncOnPayloads.raised) =>
        /\ ~mm_out.raised
        /\ Classified_is_valid(mm_out.ret)
        /\ mm_out.ret.value = FuncOnPayloads.ret
        /\ mm_out.ret.classification = JoinOfArgs

\* C2 witness: the call of the test, func(m, x, b=0) = m * x + b on a value
\* marked (A), a raw value and b marked (B): payload 1 * 2 + 1, marking (A/B)
C2_Witness ==
    /\ mm_out.done
    /\ mm_out.func = "func"
    /\ mm_args = <<Classified_just(PyInt(1),
                        ClsArg(Classification({"A"}, {}))),
                   Raw(PyInt(2))>>
    /\ mm_kwargs = <<[name |-> "b",
                      value |-> Classified_just(PyInt(1),
                                    ClsArg(Classification({"B"}, {})))]>>
    /\ mm_out.ret.value = PyInt(3)
    /\ mm_out.ret.error = NoError
    /\ mm_out.ret.classification = Classification({"A", "B"}, {})

\* C3: when an argument is in error state, or the function raises, map_many
\* raises nothing: it returns a Classified in error state that stores the
\* raised error (of the first argument in error state, else the function's)
\* and is marked with the union of the markings of all arguments, those in
\* error state included.
C3_MapManyCapturesFailure ==
    (/\ mm_out.done
     /\ \/ \E i \in DOMAIN AllArgs : ~ArgIsValid(AllArgs[i])
        \/ FuncOnPayloads.raised) =>
        /\ ~mm_out.raised
        /\ ~Classified_is_valid(mm_out.ret)
        /\ mm_out.ret.error =
                IF \E i \in DOMAIN AllArgs : ~ArgIsValid(AllArgs[i])
                THEN FirstArgError ELSE FuncOnPayloads.exc
        /\ mm_out.ret.classification = JoinOfArgs

\* C3 witness: the only argument marked (B) is in error state, after a valid
\* one marked (A); the result stores its error and is marked (A/B)
C3_Witness ==
    /\ mm_out.done
    /\ Len(mm_args) = 2 /\ Len(mm_kwargs) = 0
    /\ ArgIsValid(mm_args[1])
    /\ mm_args[1].classification = Classification({"A"}, {})
    /\ mm_args[2] = Classified_nothing("ZeroDivisionError()",
                        ClsArg(Classification({"B"}, {})))
    /\ mm_out.ret.error = "ZeroDivisionError()"
    /\ mm_out.ret.classification = Classification({"A", "B"}, {})

-----------------------------------------------------------------------------
(* Claims about the unary combinators *)

\* C4: c.map(f) has the marking of c for a valid and for an invalid c and
\* for an f that returns and an f that raises; so after a chain of map
\* calls, also one in which a step failed, the marking is the one of the
\* starting value.
C4_MapPreservesMarking ==
    /\ last.op = "map" =>
            /\ ~last.raised
            /\ last.ret.classification = last.before.classification
    /\ (\A i \in DOMAIN trail : trail[i].op = "map") =>
            recv.classification = start.classification

\* C4 witness: a chain of maps on a valid value marked (A//X) in which a
\* later step raised, leaving an error
C4_Witness ==
    /\ Len(trail) >= 2
    /\ \A i \in DOMAIN trail : trail[i].op = "map"
    /\ Classified_is_valid(start)
    /\ start.classification = Classification({"A"}, {"X"})
    /\ Classified_is_valid(last.before)
    /\ last.before.value # start.value
    /\ recv.error = "ZeroDivisionError()"

\* the Maybe the function of the last apply returns on the receiver's payload
AppliedMaybe == call_user(last.func, <<last.before.value>>, <<>>, NoError)

\* C5: c.apply(f), f returning a Maybe, has the marking of c; for an invalid
\* c it is invalid with c's error and f is not invoked; else it is valid
\* with the payload of the Maybe f returned, or invalid with its error.
C5_ApplyKeepsMarking ==
    last.op = "apply" =>
        /\ ~Classified_is_valid(last.before) =>
                /\ ~last.raised
                /\ last.calls = <<>>
                /\ ~Classified_is_valid(last.ret)
                /\ last.ret.error = last.before.error
                /\ last.ret.classification = last.before.classification
        /\ (Classified_is_valid(last.before) /\ ~AppliedMaybe.raised) =>
                /\ ~last.raised
                /\ last.calls =
                    <<Call(last.func, <<last.before.value>>, <<>>, NoError)>>
                /\ last.ret.classification = last.before.classification
                /\ Maybe_is_valid(AppliedMaybe.ret) =>
                        /\ Classified_is_valid(last.ret)
                        /\ last.ret.value = AppliedMaybe.ret.value
                /\ ~Maybe_is_valid(AppliedMaybe.ret) =>
                        /\ ~Classified_is_valid(last.ret)
                        /\ last.ret.error = AppliedMaybe.ret.error

\* the Maybe the handler of the last if_error returns on the stored error
HandledMaybe == call_user(last.func, <<>>, <<>>, last.before.error)

\* C6: c.if_error(h) on a c in error state invokes h with c's stored error
\* and returns a Classified that is valid exactly when h's result is and
\* has the marking of c; on a valid c it returns c itself and h is not
\* invoked.  The returned marking is never different from c's.
C6_IfErrorKeepsMarking ==
    last.op = "if_error" =>
        /\ Classified_is_valid(last.before) =>
                /\ ~last.raised
                /\ last.calls = <<>>
                /\ last.ret = last.before
        /\ (~Classified_is_valid(last.before) /\ ~HandledMaybe.raised) =>
                /\ ~last.raised
                /\ last.calls =
                    <<Call(last.func, <<>>, <<>>, last.before.error)>>
                /\ Classified_is_valid(last.ret)
                        <=> Maybe_is_valid(HandledMaybe.ret)
                /\ last.ret.classification = last.before.classification

-----------------------------------------------------------------------------
(* Claims about the textual notation *)

\* the tokens of a part: its "/"-separated pieces, trimmed, the empty ones
\* left out
TokensOf(part) ==
    LET pieces == str_split(part, <<"/">>)
    IN  {str_strip(pieces[i]) : i \in DOMAIN pieces} \ {<<>>}

\* the texts '', ' ', '(   ) ', '//FOO/BAR' and 'UNCLASSIFIED//FOO/BAR', with
\* P for FOO and Q for BAR
BlankLevelTexts ==
    {<<>>, <<" ">>, <<"(", " ", " ", " ", ")", " ">>,
     <<"/", "/", "P", "/", "Q">>,
     <<"UNCLASSIFIED", "/", "/", "P", "/", "Q">>}

\* C12: Classification.coerce(text) trims the "/"-separated tokens of each
\* part and drops the empty ones, and drops UNCLASSIFIED from the level part:
\* neither resulting set contains the empty token, whatever the text, and the
\* five listed texts yield an empty level set.
C12_ParserDropsEmptyTokens ==
    (parsed.done /\ ~parsed.raised) =>
        /\ <<>> \notin parsed.result.level
        /\ <<>> \notin parsed.result.compartment
        /\ UNCLASSIFIED \notin parsed.result.level
        /\ text \in BlankLevelTexts => parsed.result.level = {}

\* the text without its parentheses, as the parser splits it
Deparenthesised == str_strip(remove_parens(text).ret)

HasSeparator == \E i \in DOMAIN Deparenthesised :
                    occurs_at(Deparenthesised, <<"/", "/">>, i)

FirstSeparator ==
    CHOOSE i \in DOMAIN Deparenthesised :
        /\ occurs_at(Deparenthesised, <<"/", "/">>, i)
        /\ \A j \in 1..(i - 1) : ~occurs_at(Deparenthesised, <<"/", "/">>, j)

\* everything before the first "//" and everything after it
BeforeFirstSeparator ==
    IF HasSeparator THEN SubSeq(Deparenthesised, 1, FirstSeparator - 1)
    ELSE Deparenthesised

AfterFirstSeparator ==
    IF HasSeparator
    THEN SubSeq(Deparenthesised, FirstSeparator + 2, Len(Deparenthesised))
    ELSE <<>>

\* C13: Classification.coerce(text) splits the de-parenthesised text on the
\* first "//" only: every non-empty token before it (UNCLASSIFIED aside) is
\* in the level set and every non-empty token after it, also one that
\* follows a second "//", is in the compartment set.
C13_SplitOnFirstSeparatorOnly ==
    (parsed.done /\ ~parsed.raised) =>
        /\ (TokensOf(BeforeFirstSeparator) \ {UNCLASSIFIED})
                \subseteq parsed.result.level
        /\ TokensOf(AfterFirstSeparator) \subseteq parsed.result.compartment

HasOpen == \E i \in DOMAIN text : text[i] = "("

HasClose == \E i \in DOMAIN text : text[i] = ")"

\* the text, trimmed, begins with "(" and ends with ")"
Surrounded ==
    LET t == str_strip(text)
    IN  Len(t) >= 2 /\ t[1] = "(" /\ t[Len(t)] = ")"

\* what the surrounding parentheses enclose
InnerText ==
    LET t == str_strip(text) IN SubSeq(t, 2, Len(t) - 1)

ParenFree(t) == \A i \in DOMAIN t : t[i] # "(" /\ t[i] # ")"

\* a parenthesis without its partner is a ValueError, no text without
\* parentheses is
MismatchIsAnError ==
    /\ (HasOpen # HasClose) =>
            (parsed.raised /\ parsed.exc = InvalidMarking)
    /\ (~HasOpen /\ ~HasClose) => ~parsed.raised

\* the text parses to the marking its inner text parses to
ParsesLikeInnerText ==
    LET inner == Classification_coerce_str(InnerText)
    IN  /\ ~parsed.raised
        /\ ~inner.raised
        /\ Classification_eq(parsed.result, inner.result)

\* C14 as stated: Classification.coerce(text) raises ValueError when the text
\* has an opening parenthesis but no closing one or the reverse; every text
\* with both surrounding parentheses parses to the marking of its inner text.
C14_SurroundedParsesLikeInner ==
    parsed.done =>
        /\ MismatchIsAnError
        /\ Surrounded => ParsesLikeInnerText

\* C14, amended: Classification.coerce(text) raises ValueError when the text
\* has an opening parenthesis but no closing one or the reverse; a text with
\* both surrounding parentheses whose inner text holds no further
\* parenthesis, or a text with none, parses to the marking of its inner text.
C14_ParenthesesAreOptional ==
    parsed.done =>
        /\ MismatchIsAnError
        /\ (Surrounded /\ ParenFree(InnerText)) => ParsesLikeInnerText

\* "(P//Q)" was parsed like "P//Q"
C14_Witness ==
    /\ parsed.done
    /\ text = <<"(", "P", "/", "/", "Q", ")">>
    /\ parsed.result = Classification({<<"P">>}, {<<"Q">>})

\* C15: for a Classification c of plain tokens, coerce(repr(c)) == c; repr
\* renders an empty level set as UNCLASSIFIED and leaves out "//" and the
\* compartment section when the compartment set is empty.
C15_RoundTrip ==
    /\ text # <<>> =>
        /\ Head(text) = "(" /\ text[Len(text)] = ")"
        /\ (orig.level = {}) <=> (text[2] = "UNCLASSIFIED")
        /\ (orig.compartment = {}) <=>
                ~(\E i \in DOMAIN text : occurs_at(text, <<"/", "/">>, i))
        /\ (orig.compartment = {}) =>
                /\ orig.level = {} => text = <<"(", "UNCLASSIFIED", ")">>
                /\ orig.level # {} => TokensOf(InnerText) = orig.level
    /\ parsed.done =>
        /\ ~parsed.raised
        /\ Classification_eq(parsed.result, orig)

\* "(P/Q P//PQ/Q)" was rendered and parsed back
C15_Witness ==
    /\ parsed.done
    /\ orig = Classification({<<"P">>, <<"Q", " ", "P">>},
                             {<<"P", "Q">>, <<"Q">>})
    /\ text = <<"(", "P", "/", "Q", " ", "P", "/", "/",
                "P", "Q", "/", "Q", ")">>

-----------------------------------------------------------------------------
(* Claims about errors along a chain *)

\* is_valid() of a Maybe or a Classified
IsValid(o) ==
    IF o.tag = "Maybe" THEN Maybe_is_valid(o) ELSE Classified_is_valid(o)

\* what the function of the last map does on the receiver's payload
MappedValue == call_user(last.func, <<last.before.value>>, <<>>, NoError)

\* what the function of the first call does on the payload of the start
FirstMapped == call_user(trail[1].func, <<start.value>>, <<>>, NoError)

ForwardOps == {"map", "apply", "expect"}

\* C16: for Maybe and Classified, a map whose function raises e on a valid
\* value returns an invalid value storing e; map and apply on an invalid
\* value return an invalid value with the same error and invoke nothing, so
\* along every further sequence of map and apply calls the error stays e;
\* expect() without override then raises e.
C16_ErrorsPropagate ==
    /\ (last.op = "map" /\ IsValid(last.before) /\ MappedValue.raised) =>
            /\ ~last.raised
            /\ last.ret.tag = last.before.tag
            /\ ~IsValid(last.ret)
            /\ last.ret.error = MappedValue.exc
    /\ (last.op \in {"map", "apply"} /\ ~IsValid(last.before)) =>
            /\ ~last.raised
            /\ last.calls = <<>>
            /\ last.ret.tag = last.before.tag
            /\ ~IsValid(last.ret)
            /\ last.ret.error = last.before.error
    /\ (last.op = "expect" /\ last.func = NoError /\ ~IsValid(last.before)) =>
            /\ last.raised
            /\ last.exc = last.before.error
    /\ (/\ ~IsValid(start)
        /\ \A i \in DOMAIN trail : trail[i].op \in ForwardOps) =>
            /\ ~IsValid(recv)
            /\ recv.error = start.error
            /\ last.calls = <<>>
    /\ (/\ IsValid(start)
        /\ Len(trail) >= 1
        /\ trail[1].op = "map"
        /\ FirstMapped.raised
        /\ \A i \in 2..Len(trail) : trail[i].op \in ForwardOps) =>
            /\ ~IsValid(recv)
            /\ recv.error = FirstMapped.exc
            /\ Len(trail) >= 2 => last.calls = <<>>

\* Maybe.just(1).map(lambda x: x / 0).apply(f).expect() raised the
\* ZeroDivisionError
C16_Witness ==
    /\ start = Maybe_just(PyInt(1))
    /\ trail = <<[op |-> "map", func |-> "div0"],
                 [op |-> "apply", func |-> "safe_inc"],
                 [op |-> "expect", func |-> NoError]>>
    /\ last.raised
    /\ last.exc = "ZeroDivisionError()"

\* C17: expect(override) on an invalid Maybe or Classified raises the
\* override when it is an Exception, ExpectationError(text) when it is a
\* string and the stored error otherwise; on a valid one it returns the
\* payload and raises nothing, whatever the override.
C17_ExpectOverrideWins ==
    last.op = "expect" =>
        /\ ~IsValid(last.before) =>
                /\ last.raised
                /\ last.func = "TypeError()" => last.exc = "TypeError()"
                /\ last.func = "cant do that" =>
                        last.exc = "ExpectationError('cant do that')"
                /\ last.func = NoError => last.exc = last.before.error
        /\ IsValid(last.before) =>
                /\ ~last.raised
                /\ last.ret = Raw(last.before.value)

\* expect("cant do that") on a Maybe that stores a ZeroDivisionError
C17_Witness ==
    /\ last.op = "expect"
    /\ last.func = "cant do that"
    /\ last.before = Maybe_nothing("ZeroDivisionError()")
    /\ last.raised
    /\ last.exc = "ExpectationError('cant do that')"

\* the marking handed to coerce, bottom when none is
GivenMarking ==
    IF co_marking.kind = "None" THEN Bottom ELSE co_marking.obj

\* C18: Classified.coerce(value, marking) returns value itself, marking
\* untouched, when value is a Classified; for a Maybe a Classified with the
\* given marking, valid with the same payload or invalid with the same
\* error; for any other value a valid Classified with the given marking
\* (bottom when none is given) around it; and it never raises.
C18_CoerceByKind ==
    co_out.done =>
        /\ ~co_out.raised
        /\ co_out.ret.tag = "Classified"
        /\ co_value.tag = "Classified" =>
                /\ co_out.same = "value"
                /\ co_out.ret = co_value
        /\ (co_value.tag = "Maybe" /\ Maybe_is_valid(co_value)) =>
                /\ Classified_is_valid(co_out.ret)
                /\ co_out.ret.value = co_value.value
                /\ co_out.ret.classification = GivenMarking
        /\ (co_value.tag = "Maybe" /\ ~Maybe_is_valid(co_value)) =>
                /\ ~Classified_is_valid(co_out.ret)
                /\ co_out.ret.error = co_value.error
                /\ co_out.ret.classification = GivenMarking
        /\ co_value.tag = "raw" =>
                /\ Classified_is_valid(co_out.ret)
                /\ co_out.ret.value = co_value.value
                /\ co_out.ret.classification = GivenMarking

\* C19: Maybe.apply(f) on a valid Maybe returns the very Maybe f returned,
\* on an invalid one an invalid Maybe with the same error without invoking
\* f; Maybe.if_error(h) on a valid Maybe returns the receiver itself without
\* invoking h, on an invalid one the very result of h(stored error), so a
\* handler that returns just(v) makes the chain valid again with payload v.
C19_MaybeApplyIfError ==
    last.before.tag = "Maybe" =>
        /\ (last.op = "apply" /\ Maybe_is_valid(last.before)
                /\ ~AppliedMaybe.raised) =>
                /\ ~last.raised
                /\ last.calls =
                    <<Call(last.func, <<last.before.value>>, <<>>, NoError)>>
                /\ last.ret = AppliedMaybe.ret
                /\ last.same = "returned"
        /\ (last.op = "apply" /\ ~Maybe_is_valid(last.before)) =>
                /\ ~last.raised
                /\ last.calls = <<>>
                /\ last.ret.tag = "Maybe"
                /\ ~Maybe_is_valid(last.ret)
                /\ last.ret.error = last.before.error
        /\ (last.op = "if_error" /\ Maybe_is_valid(last.before)) =>
                /\ ~last.raised
                /\ last.calls = <<>>
                /\ last.ret = last.before
                /\ last.same = "self"
        /\ (last.op = "if_error" /\ ~Maybe_is_valid(last.before)
                /\ ~HandledMaybe.raised) =>
                /\ ~last.raised
                /\ last.calls =
                    <<Call(last.func, <<>>, <<>>, last.before.error)>>
                /\ last.ret = HandledMaybe.ret
                /\ last.same = "returned"
                /\ Maybe_is_valid(HandledMaybe.ret) =>
                        /\ Maybe_is_valid(recv)
                        /\ recv.value = HandledMaybe.ret.value

\* Maybe.nothing(ZeroDivisionError()).if_error(handle_zero_division) is
\* Maybe.just(math.inf)
C19_Witness ==
    /\ last.op = "if_error"
    /\ last.func = "handle_zero_division"
    /\ last.before = Maybe_nothing("ZeroDivisionError()")
    /\ recv = Maybe_just(Inf)

\* C20: map, apply and if_error of Maybe and Classified return a
\* result object for every receiver and every supplied function, also one
\* that raises; only expect raises to the caller.
C20_OnlyExpectRaises ==
    last.op \in {"map", "apply", "if_error"} =>
        /\ ~last.raised
        /\ last.ret.tag = last.before.tag

-----------------------------------------------------------------------------
(* Claims about the frame of the operations *)

\* C21: no operation changes an object after its construction: whatever
\* map, apply, if_error, expect, Classified.coerce, map_many, union and the
\* comparisons were carried out, every Maybe, Classified and Classification
\* built so far holds the payload, the error and the marking it was built
\* with, the error being as it was then.
C21_NothingIsMutated ==
    /\ \A k \in DOMAIN heap : DeepState(k) = built[k]
    /\ marks = marks_built

\* the operations so far that raised the exception e again
RaisingsOf(e) ==
    {i \in DOMAIN flog :
        \E j \in DOMAIN flog[i].raisings : flog[i].raisings[j] = e}

\* C21, amended: no operation assigns a field of an object after its
\* construction: every Maybe, Classified and Classification built so far
\* has the payload, the stored exception object (same type and arguments)
\* and the marking it was built with.  Only the __traceback__ of a stored
\* exception changes, once with each operation that raises it again, and
\* these are expect without override on a value in error state, which
\* raises, and map_many with an argument in error state, which returns.
C21_OnlyTracebacksChange ==
    /\ \A k \in DOMAIN heap :
            /\ heap[k].obj = built[k].obj
            /\ heap[k].eid = built[k].eid
            /\ StoredException(k).repr = built[k].exc.repr
            /\ StoredException(k).repr = heap[k].obj.error
            /\ StoredException(k).tb >= built[k].exc.tb
    /\ marks = marks_built
    /\ \A e \in DOMAIN excs :
            excs[e].tb = excs[e].born + Cardinality(RaisingsOf(e))
    /\ \A i \in DOMAIN flog :
            flog[i].raisings # <<>> =>
                /\ Len(flog[i].raisings) = 1
                /\ \/ flog[i].op = "expect" /\ flog[i].raised
                   \/ flog[i].op = "map_many" /\ ~flog[i].raised

\* C21 witness: a Classified in error state was mapped, which built a second
\* one around the same exception; expect on the second raised it, and the
\* exception of the first, built with no traceback, has one now
C21_Witness ==
    /\ flog = <<[op |-> "map", raised |-> FALSE, raisings |-> <<>>],
                [op |-> "expect", raised |-> TRUE, raisings |-> <<1>>]>>
    /\ Len(heap) = 2
    /\ heap[1].obj.tag = "Classified"
    /\ heap[1].eid = 1 /\ heap[2].eid = 1
    /\ built[1].exc.tb = 0
    /\ StoredException(1).tb = 1
    /\ heap[1].obj = built[1].obj

-----------------------------------------------------------------------------
(* Claims about the order of evaluation inside map_many *)

\* the Classified that map_many unwraps for an argument
AsClassified(a) ==
    IF a.tag = "raw" THEN Classified_just(a.value, NoneArg) ELSE a

\* how many arguments, positional then named, come before the first one in
\* error state
ValidPrefix ==
    IF \A i \in DOMAIN AllArgs : ArgIsValid(AllArgs[i]) THEN Len(AllArgs)
    ELSE (CHOOSE i \in DOMAIN AllArgs :
                /\ ~ArgIsValid(AllArgs[i])
                /\ \A j \in 1..(i - 1) : ArgIsValid(AllArgs[j])) - 1

AllArgsValid == ValidPrefix = Len(AllArgs)

\* the arguments in the order they are unwrapped: every one when all are
\* valid, else those up to and including the first in error state
UnwrappedInOrder ==
    [i \in 1..(IF AllArgsValid THEN Len(AllArgs) ELSE ValidPrefix + 1) |->
        Unwrapped(AsClassified(AllArgs[i]))]

\* C22: map_many unwraps the positional arguments in order, then the named
\* ones, and calls func after the last of them; func is called at most once
\* and only when every argument is valid; when arguments are in error state,
\* unwrapping stops at the first of them in that order, func is not called
\* and the result stores the error of that first argument.
C22_MapManyOrder ==
    mm_out.done =>
        /\ mm_out.events =
                UnwrappedInOrder \o (IF AllArgsValid THEN <<Called>> ELSE <<>>)
        /\ Len(mm_out.calls) <= 1
        /\ (mm_out.calls # <<>>) <=> AllArgsValid
        /\ ~AllArgsValid =>
                /\ ~mm_out.raised
                /\ mm_out.ret.error = FirstArgError

\* C22 witness: a valid positional argument, then a positional and a named
\* argument in error state with different errors; the first two are
\* unwrapped, func is not called and the positional one's error is stored
C22_Witness ==
    /\ mm_out.done
    /\ Len(mm_args) = 2 /\ Len(mm_kwargs) = 1
    /\ ArgIsValid(mm_args[1])
    /\ mm_args[2].error = "ZeroDivisionError()"
    /\ mm_kwargs[1].value.error = "ValueError()"
    /\ mm_out.events = <<Unwrapped(AsClassified(mm_args[1])),
                         Unwrapped(mm_args[2])>>
    /\ mm_out.calls = <<>>
    /\ mm_out.ret.error = "ZeroDivisionError()"

\* C22 second case: three valid arguments, one of them named, are all
\* unwrapped and func is then called once
C22_WitnessCalled ==
    /\ mm_out.done
    /\ Len(mm_args) = 2 /\ Len(mm_kwargs) = 1
    /\ AllArgsValid
    /\ Len(mm_out.events) = 4
    /\ mm_out.events[3] = Unwrapped(AsClassified(mm_kwargs[1].value))
    /\ mm_out.events[4] = Called
    /\ Len(mm_out.calls) = 1

=============================================================================
